---- MODULE Spec2Model ----
(***************************************************************************)
(* A model of two programs of the repository:                              *)
(*                                                                         *)
(*   - the application shell, packages/core/src/api/app/App.tsx:           *)
(*     createApp (theme resolution, AppImpl construction, verify) and      *)
(*     AppImpl.getRootComponent (route table, feature flag registration);  *)
(*   - the scaffolder's GithubPreparer.prepare,                            *)
(*     plugins/scaffolder-backend/src/scaffolder/stages/prepare/github.ts. *)
(*                                                                         *)
(* Spec is the application shell, PrepareSpec the preparer.                *)
(***************************************************************************)
EXTENDS Integers, Sequences, FiniteSets, TLC

VARIABLES
    appState,       \* "init" before createApp, then "returned" or "thrown"
    options,        \* the AppOptions createApp was called with
    app,            \* the AppImpl fields: apis, plugins, themes
    thrown,         \* the Error createApp threw
    flagsApi,       \* FeatureFlags.registeredFeatureFlags of the provider in apis
    hadFlags,       \* history: the provider's list was not empty when that call began
    inCall,         \* a getRootComponent call has built its result and not yet returned
    seenOutputs,    \* what plugin.output() returned in that call
    rendered,       \* the children of <Switch> that call built
    token,          \* GithubPreparer.config.token, "" if none
    pc,             \* per prepare call: where it is
    request,        \* per prepare call: the url it was given
    fs,             \* per prepare call: the paths that exist in its workspacePath
    calls,          \* per prepare call: the git and fs calls it made, with their outcomes
    failure         \* per prepare call: the error it rejected with

appVars == <<appState, options, app, thrown, flagsApi, hadFlags, inCall, seenOutputs, rendered>>

prepareVars == <<token, pc, request, fs, calls, failure>>

vars == <<appVars, prepareVars>>

-----------------------------------------------------------------------------
(* Bounds of the model.                                                    *)

\* Longest plugin list given to createApp.
MaxPlugins == 4
\* Most outputs all plugins together return in one getRootComponent call.
MaxOutputs == 2
\* Longest explicit theme list given to createApp.
MaxThemes == 2
\* Number of prepare calls, each on a workspacePath of its own.
MaxCalls == 2

PluginIds == {"p", "q"}

\* A path is the sequence of its segments: /a is <<"a">>, /login is <<"login">>.
LoginPath == <<"login">>
Paths == {<<"a">>, LoginPath}
Locations == Paths \cup {<<>>, <<"a", "x">>, <<"login", "x">>, <<"z">>}
PluginComponents == {"CompA", "CompB"}
FlagNames == {"f1", "f2"}
NoPath == <<>>

-----------------------------------------------------------------------------
(* Plugin outputs.                                                         *)

\* options.exact of an output: omitted (options or exact undefined), or given.
ExactOptions == {"omitted", "true", "false"}

\* Every exact option is tried on /a; the login path comes with the default.
RouteOutputs ==
    [type : {"route"}, path : {<<"a">>}, component : PluginComponents,
     target : {NoPath}, exact : ExactOptions, name : {""}]
    \cup [type : {"route"}, path : {LoginPath}, component : {"CompB"},
          target : {NoPath}, exact : {"omitted"}, name : {""}]

NavTargetOutputs ==
    [type : {"nav-target-component"}, path : {NoPath}, component : {"CompA"},
     target : {<<"a">>}, exact : ExactOptions, name : {""}]

RedirectOutputs ==
    [type : {"redirect-route"}, path : {<<"a">>}, component : {""},
     target : {<<"z">>}, exact : ExactOptions, name : {""}]

FeatureFlagOutputs ==
    [type : {"feature-flag"}, path : {NoPath}, component : {""},
     target : {NoPath}, exact : {"omitted"}, name : FlagNames]

\* An output whose tag getRootComponent's switch does not know.
UnknownOutputs ==
    [type : {"legacy-output"}, path : {NoPath}, component : {""},
     target : {NoPath}, exact : {"omitted"}, name : {""}]

Outputs ==
    RouteOutputs \cup NavTargetOutputs \cup RedirectOutputs
        \cup FeatureFlagOutputs \cup UnknownOutputs

SeqsUpTo(S, n) == UNION {[1..k -> S] : k \in 0..n}

\* The subsequence of s whose positions the owner function gives to plugin i.
RECURSIVE OwnedBy(_, _, _)
OwnedBy(s, owner, i) ==
    IF s = <<>> THEN <<>>
    ELSE LET rest == OwnedBy(Tail(s), Tail(owner), i)
         IN  IF Head(owner) = i THEN <<Head(s)>> \o rest ELSE rest

\* What the n plugins' output() may return in one call: at most MaxOutputs
\* outputs in all.
AssignmentsFor(n) ==
    IF n = 0 THEN {<<>>}
    ELSE UNION {
           { [i \in 1..n |-> OwnedBy(s, owner, i)] :
               owner \in { o \in [1..Len(s) -> 1..n] :
                             \A j \in 1..(Len(s) - 1) : o[j] <= o[j + 1] } }
           : s \in SeqsUpTo(Outputs, MaxOutputs) }

AssignmentsOne == AssignmentsFor(1)
AssignmentsTwo == AssignmentsFor(2)

OutputAssignments(n) ==
    CASE n = 1 -> AssignmentsOne
      [] n = 2 -> AssignmentsTwo
      [] OTHER -> AssignmentsFor(n)

-----------------------------------------------------------------------------
(* createApp.                                                              *)

ThemeObjects == {"T1", "T2"}
NoTheme == "none"
lightTheme == "lightTheme"

ThemeEntries ==
    { [id |-> "custom", title |-> "Custom", variant |-> "dark", theme |-> "T1"],
      [id |-> "light", title |-> "Mine", variant |-> "light", theme |-> "T2"] }

\* options.themes: undefined, an array of AppTheme, or a {light?, dark?} pair.
ThemesUndefined ==
    [shape |-> "undefined", list |-> <<>>, light |-> NoTheme, dark |-> NoTheme]

ThemeOptions ==
    {ThemesUndefined}
    \cup [shape : {"array"}, list : SeqsUpTo(ThemeEntries, MaxThemes),
          light : {NoTheme}, dark : {NoTheme}]
    \cup [shape : {"pair"}, list : {<<>>},
          light : ThemeObjects \cup {NoTheme}, dark : ThemeObjects \cup {NoTheme}]

\* options.apis: undefined, a registry without a feature flag provider, or
\* a registry holding one.
ApiOptions == {"undefined", "registry", "registryWithFlags"}

PluginLists == SeqsUpTo(PluginIds, MaxPlugins)

\* The options createApp is called with.  Theme resolution and the plugin
\* scan read disjoint options, so each is varied with the other at its
\* default.
AppOptionsSet ==
    [plugins : PluginLists, themes : {ThemesUndefined}, apis : ApiOptions]
    \cup [plugins : {<<>>}, themes : ThemeOptions, apis : {"undefined"}]

\* resolveThemes without the fallback to a default theme.
resolveThemesNoDefault(themes) ==
    IF themes.shape = "array" THEN themes.list
    ELSE (IF themes.light # NoTheme
          THEN << [id |-> "light", title |-> "Light Theme",
                   variant |-> "light", theme |-> themes.light] >>
          ELSE <<>>)
         \o
         (IF themes.dark # NoTheme
          THEN << [id |-> "dark", title |-> "Dark Theme",
                   variant |-> "dark", theme |-> themes.dark] >>
          ELSE <<>>)

resolveThemes(themes) ==
    LET fromOptions ==
            IF themes.shape = "array" THEN themes.list
            ELSE (IF themes.light # NoTheme
                  THEN << [id |-> "light", title |-> "Light Theme",
                           variant |-> "light", theme |-> themes.light] >>
                  ELSE <<>>)
                 \o
                 (IF themes.dark # NoTheme
                  THEN << [id |-> "dark", title |-> "Dark Theme",
                           variant |-> "dark", theme |-> themes.dark] >>
                  ELSE <<>>)
    IN  IF Len(fromOptions) = 0
        THEN << [id |-> "light", title |-> "Default Theme",
                 variant |-> "light", theme |-> lightTheme] >>
        ELSE fromOptions

resolveApis(apis) ==
    IF apis = "undefined" THEN "registry" ELSE apis

NoError == [message |-> "", id |-> ""]

\* The loop of verify from plugin i on, with the ids seen so far.
RECURSIVE verifyFrom(_, _, _)
verifyFrom(plugins, i, pluginIds) ==
    IF i > Len(plugins) THEN NoError
    ELSE IF plugins[i] \in pluginIds
         THEN [message |-> "Duplicate plugin found", id |-> plugins[i]]
         ELSE verifyFrom(plugins, i + 1, pluginIds \cup {plugins[i]})

\* verify with a scan that starts one plugin late.
verifySkipsFirst(plugins) == verifyFrom(plugins, 2, {})

verify(plugins) == verifyFrom(plugins, 1, {})

NoApp == [apis |-> "none", plugins |-> <<>>, themes |-> <<>>]

CreateApp ==
    /\ appState = "init"
    /\ \E o \in AppOptionsSet :
         LET built == [apis |-> resolveApis(o.apis), plugins |-> o.plugins,
                       themes |-> resolveThemes(o.themes)]
             err == verify(built.plugins)
         IN  /\ options' = o
             /\ IF err = NoError
                THEN /\ appState' = "returned"
                     /\ app' = built
                     /\ thrown' = NoError
                ELSE /\ appState' = "thrown"
                     /\ app' = NoApp
                     /\ thrown' = err
    /\ UNCHANGED <<flagsApi, hadFlags, inCall, seenOutputs, rendered>>
    /\ UNCHANGED prepareVars

-----------------------------------------------------------------------------
(* AppImpl.getRootComponent.                                               *)

LoginPage == "LoginPage"
NotFoundErrorPage == "NotFoundErrorPage"

NoKey == [kind |-> "none", plugin |-> "", path |-> NoPath]

\* exactOf with the default of react-router, false.
exactOfDefaultFalse(output) == output.exact = "true"

exactOf(output) ==
    IF output.exact = "omitted" THEN TRUE ELSE output.exact = "true"

\* The element one output pushes onto routes, in a sequence; none for a
\* feature flag or an unknown tag.
routeElements(pluginId, output) ==
    CASE output.type = "route" ->
           << [element |-> "Route",
               key |-> [kind |-> "path", plugin |-> "", path |-> output.path],
               hasPath |-> TRUE, path |-> output.path,
               component |-> output.component, to |-> NoPath,
               exact |-> exactOf(output)] >>
      [] output.type = "nav-target-component" ->
           << [element |-> "Route",
               key |-> [kind |-> "plugin-path", plugin |-> pluginId,
                        path |-> output.target],
               hasPath |-> TRUE, path |-> output.target,
               component |-> output.component, to |-> NoPath,
               exact |-> exactOf(output)] >>
      [] output.type = "redirect-route" ->
           << [element |-> "Redirect",
               key |-> [kind |-> "path", plugin |-> "", path |-> output.path],
               hasPath |-> TRUE, path |-> output.path,
               component |-> "", to |-> output.target,
               exact |-> exactOf(output)] >>
      [] OTHER -> <<>>

flagItems(pluginId, output) ==
    IF output.type = "feature-flag"
    THEN << [pluginId |-> pluginId, name |-> output.name] >>
    ELSE <<>>

\* The inner loop over one plugin's outputs, from output j on.
RECURSIVE outputLoop(_, _, _, _)
outputLoop(pluginId, outs, j, acc) ==
    IF j > Len(outs) THEN acc
    ELSE outputLoop(pluginId, outs, j + 1,
             [routes |-> acc.routes \o routeElements(pluginId, outs[j]),
              flags |-> acc.flags \o flagItems(pluginId, outs[j])])

\* pluginLoop visiting the later plugins first.
RECURSIVE pluginLoopReversed(_, _, _, _)
pluginLoopReversed(plugins, outputs, i, acc) ==
    IF i > Len(plugins) THEN acc
    ELSE outputLoop(plugins[i], outputs[i], 1,
                    pluginLoopReversed(plugins, outputs, i + 1, acc))

\* The outer loop over the plugins, from plugin i on.
RECURSIVE pluginLoop(_, _, _, _)
pluginLoop(plugins, outputs, i, acc) ==
    IF i > Len(plugins) THEN acc
    ELSE pluginLoop(plugins, outputs, i + 1,
                    outputLoop(plugins[i], outputs[i], 1, acc))

loginRoute ==
    [element |-> "Route", key |-> [kind |-> "login", plugin |-> "", path |-> NoPath],
     hasPath |-> TRUE, path |-> LoginPath, component |-> LoginPage,
     to |-> NoPath, exact |-> TRUE]

notFoundRoute ==
    [element |-> "Route", key |-> NoKey, hasPath |-> FALSE, path |-> NoPath,
     component |-> NotFoundErrorPage, to |-> NoPath, exact |-> FALSE]

\* The children of the <Switch>: routes, with the login route pushed last,
\* then the route of the not-found page.
switchChildren(collected) ==
    (collected.routes \o <<loginRoute>>) \o <<notFoundRoute>>

hasFlagsProvider(apis) == apis = "registryWithFlags"

\* registerFlags adding to the list instead of replacing it.
registerFlagsMerge(apis, registered, collected) ==
    IF hasFlagsProvider(apis) THEN registered \o collected ELSE registered

\* registeredFeatureFlags of the provider after the call, given the list
\* it held before and the list the loops collected.
registerFlags(apis, registered, collected) ==
    IF hasFlagsProvider(apis) THEN collected ELSE registered

GetRootComponent ==
    /\ appState = "returned"
    /\ ~inCall
    /\ \E outputs \in OutputAssignments(Len(app.plugins)) :
         LET collected == pluginLoop(app.plugins, outputs, 1,
                                     [routes |-> <<>>, flags |-> <<>>])
         IN  /\ seenOutputs' = outputs
             /\ flagsApi' = registerFlags(app.apis, flagsApi, collected.flags)
             /\ rendered' = switchChildren(collected)
    /\ hadFlags' = (flagsApi # <<>>)
    /\ inCall' = TRUE
    /\ UNCHANGED <<appState, options, app, thrown>>
    /\ UNCHANGED prepareVars

\* The call returns () => rendered to its caller, and the next call can
\* begin: the calls of one thread do not overlap.
ReturnRootComponent ==
    /\ inCall
    /\ inCall' = FALSE
    /\ seenOutputs' = <<>>
    /\ rendered' = <<>>
    /\ UNCHANGED <<appState, options, app, thrown, flagsApi, hadFlags>>
    /\ UNCHANGED prepareVars

-----------------------------------------------------------------------------
(* What the <Switch> of the root component renders for a location.         *)

IsPrefix(p, l) == Len(p) <= Len(l) /\ SubSeq(l, 1, Len(p)) = p

matches(child, location) ==
    IF ~child.hasPath THEN TRUE
    ELSE IF child.exact THEN child.path = location
    ELSE IsPrefix(child.path, location)

\* The index of the first child that matches; 0 if none does.
RECURSIVE firstMatch(_, _, _)
firstMatch(children, location, i) ==
    IF i > Len(children) THEN 0
    ELSE IF matches(children[i], location) THEN i
    ELSE firstMatch(children, location, i + 1)

switchMatch(children, location) == firstMatch(children, location, 1)

-----------------------------------------------------------------------------

(* GithubPreparer.prepare.                                                 *)

Calls == 1..MaxCalls

\* A url is the path that follows its host, in segments; malformed marks a
\* string parseGitUrl rejects.
Urls ==
    { [malformed |-> FALSE, path |-> <<"org", "repo", "tree", "main", "templates", "foo">>],
      [malformed |-> FALSE, path |-> <<"org", "repo">>],
      [malformed |-> FALSE, path |-> <<"org", "repo", "tree", "main", "missing">>],
      [malformed |-> TRUE, path |-> <<>>] }

NoUrl == [malformed |-> TRUE, path |-> <<"">>]

\* The repository behind org/repo, as the paths of a clone of it.
RepoTree ==
    { <<".git">>, <<".git", "HEAD">>, <<"README">>, <<"templates">>,
      <<"templates", "foo">>, <<"templates", "foo", "skeleton">>,
      <<"templates", "bar">> }

FileNames == {"HEAD", "README", "skeleton", "bar"}

Tokens == {"", "ghp"}

parseGitUrl(url) ==
    IF url.malformed
    THEN [error |-> "InvalidUrl", owner |-> "", name |-> "", ref |-> "", filepath |-> <<>>]
    ELSE LET p == url.path
             tree == Len(p) >= 4 /\ p[3] = "tree"
         IN  [error |-> "", owner |-> p[1], name |-> p[2],
              ref |-> IF tree THEN p[4] ELSE "",
              filepath |-> IF tree THEN SubSeq(p, 5, Len(p)) ELSE <<>>]

checkoutPath == <<"checkout">>
targetPath == <<"template">>
fullPathToTemplate(parsedGitUrl) == checkoutPath \o parsedGitUrl.filepath

\* The paths of files at or below root.
Under(files, root) == { p \in files : IsPrefix(root, p) }

Rebase(p, from, to) == to \o SubSeq(p, Len(from) + 1, Len(p))

\* git.clone into dir: the outcomes of a clone that succeeds, and of one
\* that fails before or after it created dir.
gitClone(files, dir) ==
    { [error |-> "", files |-> files \cup {dir} \cup { dir \o p : p \in RepoTree }],
      [error |-> "CloneFailed", files |-> files],
      [error |-> "CloneFailed", files |-> files \cup {dir, dir \o <<".git">>}] }

\* fsMove copying the tree and leaving src in place.
fsMoveCopies(files, src, dest) ==
    IF src \notin files
    THEN { [error |-> "ENOENT", files |-> files] }
    ELSE { [error |-> "",
            files |-> files \cup { Rebase(p, src, dest) : p \in Under(files, src) }] }

\* fs.move(src, dest) of fs-extra, without overwrite.
fsMove(files, src, dest) ==
    IF src \notin files
    THEN { [error |-> "ENOENT", files |-> files] }
    ELSE IF dest \in files
    THEN { [error |-> "dest already exists.", files |-> files] }
    ELSE { [error |-> "",
            files |-> (files \ Under(files, src))
                        \cup { Rebase(p, src, dest) : p \in Under(files, src) }],
           [error |-> "EIO", files |-> files] }

\* fs.rmdir(dir): removes an empty directory only.
fsRmdir(files, dir) ==
    IF dir \notin files
    THEN { [error |-> "ENOENT", files |-> files] }
    ELSE IF dir[Len(dir)] \in FileNames
    THEN { [error |-> "ENOTDIR", files |-> files] }
    ELSE IF Under(files, dir) # {dir}
    THEN { [error |-> "ENOTEMPTY", files |-> files] }
    ELSE { [error |-> "", files |-> files \ {dir}],
           [error |-> "EACCES", files |-> files] }

\* Git.fromAuth: the credentials of the clone.
gitAuth == IF token # "" THEN [username |-> token, password |-> "x-oauth-basic"]
           ELSE [username |-> "", password |-> ""]

Called(op, arg, auth, error) == [op |-> op, arg |-> arg, auth |-> auth, error |-> error]

NoAuth == [username |-> "", password |-> ""]

\* afterClone going on after a failed clone.
afterCloneIgnores(error) == "move"

\* afterRmdir without the try around fs.rmdir.
afterRmdirPropagates(error) == IF error = "" THEN "resolved" ELSE "rejected"

\* Where prepare goes once an awaited call has settled with this error.
afterParse(error) == IF error = "" THEN "clone" ELSE "rejected"
afterClone(error) == IF error = "" THEN "move" ELSE "rejected"
afterMove(error) == IF error = "" THEN "rmdir" ELSE "rejected"
afterRmdir(error) == "resolved"

\* prepare is called: the url is parsed and the clone begun.
Prepare(c) ==
    /\ pc[c] = "idle"
    /\ \E url \in Urls :
         LET parsedGitUrl == parseGitUrl(url)
         IN  /\ request' = [request EXCEPT ![c] = url]
             /\ calls' = [calls EXCEPT ![c] =
                    <<Called("parseGitUrl", <<>>, NoAuth, parsedGitUrl.error)>>]
             /\ pc' = [pc EXCEPT ![c] = afterParse(parsedGitUrl.error)]
             /\ failure' = [failure EXCEPT ![c] =
                    IF afterParse(parsedGitUrl.error) = "rejected"
                    THEN parsedGitUrl.error ELSE ""]
    /\ UNCHANGED <<token, fs>>
    /\ UNCHANGED appVars

\* await git.clone settles.
CloneSettles(c) ==
    /\ pc[c] = "clone"
    /\ \E out \in gitClone(fs[c], checkoutPath) :
         /\ fs' = [fs EXCEPT ![c] = out.files]
         /\ calls' = [calls EXCEPT ![c] =
                Append(@, Called("clone", checkoutPath, gitAuth, out.error))]
         /\ pc' = [pc EXCEPT ![c] = afterClone(out.error)]
         /\ failure' = [failure EXCEPT ![c] =
                IF afterClone(out.error) = "rejected" THEN out.error ELSE ""]
    /\ UNCHANGED <<token, request>>
    /\ UNCHANGED appVars

\* await fs.move settles.
MoveSettles(c) ==
    /\ pc[c] = "move"
    /\ \E out \in fsMove(fs[c], fullPathToTemplate(parseGitUrl(request[c])), targetPath) :
         /\ fs' = [fs EXCEPT ![c] = out.files]
         /\ calls' = [calls EXCEPT ![c] =
                Append(@, Called("move", fullPathToTemplate(parseGitUrl(request[c])),
                                 NoAuth, out.error))]
         /\ pc' = [pc EXCEPT ![c] = afterMove(out.error)]
         /\ failure' = [failure EXCEPT ![c] =
                IF afterMove(out.error) = "rejected" THEN out.error ELSE ""]
    /\ UNCHANGED <<token, request>>
    /\ UNCHANGED appVars

\* await fs.rmdir settles, inside the try.
RmdirSettles(c) ==
    /\ pc[c] = "rmdir"
    /\ \E out \in fsRmdir(fs[c], targetPath \o <<".git">>) :
         /\ fs' = [fs EXCEPT ![c] = out.files]
         /\ calls' = [calls EXCEPT ![c] =
                Append(@, Called("rmdir", targetPath \o <<".git">>, NoAuth, out.error))]
         /\ pc' = [pc EXCEPT ![c] = afterRmdir(out.error)]
         /\ failure' = [failure EXCEPT ![c] =
                IF afterRmdir(out.error) = "rejected" THEN out.error ELSE ""]
    /\ UNCHANGED <<token, request>>
    /\ UNCHANGED appVars

PrepareInit ==
    /\ token \in Tokens
    /\ pc = [c \in Calls |-> "idle"]
    /\ request = [c \in Calls |-> NoUrl]
    /\ fs = [c \in Calls |-> {}]
    /\ calls = [c \in Calls |-> <<>>]
    /\ failure = [c \in Calls |-> ""]

-----------------------------------------------------------------------------

AppInit ==
    /\ appState = "init"
    /\ options = [plugins |-> <<>>, themes |-> ThemesUndefined, apis |-> "undefined"]
    /\ app = NoApp
    /\ thrown = NoError
    /\ flagsApi = <<>>
    /\ hadFlags = FALSE
    /\ inCall = FALSE
    /\ seenOutputs = <<>>
    /\ rendered = <<>>

Init == AppInit /\ PrepareInit

Next ==
    \/ CreateApp
    \/ GetRootComponent
    \/ ReturnRootComponent

Spec == Init /\ [][Next]_vars

PrepareNext ==
    \E c \in Calls :
        \/ Prepare(c)
        \/ CloneSettles(c)
        \/ MoveSettles(c)
        \/ RmdirSettles(c)

PrepareSpec == Init /\ [][PrepareNext]_vars

-----------------------------------------------------------------------------
(* Properties of createApp and getRootComponent, in Spec.                  *)

Distinct(ps) == \A i, j \in 1..Len(ps) : i # j => ps[i] # ps[j]

Repeats(ps, j) == \E i \in 1..(j - 1) : ps[i] = ps[j]

\* C1: createApp returns the app exactly when the plugin ids are pairwise
\* distinct; otherwise it throws an error naming the id at the first
\* position that repeats an earlier one, and returns no app.
CreateAppVerifiesPluginIds ==
    appState # "init" =>
        LET ps == options.plugins
        IN  /\ (appState = "returned") <=> Distinct(ps)
            /\ appState = "returned" => app.plugins = ps /\ thrown = NoError
            /\ appState = "thrown" =>
                 /\ app = NoApp
                 /\ thrown.message = "Duplicate plugin found"
                 /\ \E j \in 1..Len(ps) :
                      /\ Repeats(ps, j)
                      /\ \A k \in 1..(j - 1) : ~Repeats(ps, k)
                      /\ thrown.id = ps[j]

CreateAppThrowsOnRepeat ==
    /\ appState = "thrown"
    /\ options.plugins = <<"p", "q", "q", "p">>
    /\ thrown.id = "q"

\* The positions <<plugin, output>> of the outputs of the given types.
PositionsOf(outs, types) ==
    UNION { { <<i, j>> : j \in { k \in 1..Len(outs[i]) : outs[i][k].type \in types } }
            : i \in 1..Len(outs) }

Before(a, b) == a[1] < b[1] \/ (a[1] = b[1] /\ a[2] < b[2])

\* The place of a position among those of S, in plugin order then output order.
Rank(pos, S) == 1 + Cardinality({ q \in S : Before(q, pos) })

RouteTypes == {"route", "nav-target-component", "redirect-route"}

\* C2: the children of the Switch are one element for each route, nav
\* target and redirect output, in plugin order then output order, with the
\* output's path (the nav target's path) and exact = options.exact, true
\* when omitted; then the /login route, then the not-found route.
RouteTableMatchesReference ==
    inCall =>
        LET S == PositionsOf(seenOutputs, RouteTypes)
            n == Cardinality(S)
        IN  /\ Len(rendered) = n + 2
            /\ \A pos \in S :
                 LET o == seenOutputs[pos[1]][pos[2]]
                     r == rendered[Rank(pos, S)]
                 IN  /\ r.hasPath
                     /\ r.path = IF o.type = "nav-target-component"
                                 THEN o.target ELSE o.path
                     /\ r.exact = IF o.exact = "omitted" THEN TRUE
                                  ELSE o.exact = "true"
                     /\ r.element = IF o.type = "redirect-route"
                                    THEN "Redirect" ELSE "Route"
            /\ rendered[n + 1].hasPath
            /\ rendered[n + 1].path = LoginPath
            /\ rendered[n + 1].component = LoginPage
            /\ rendered[n + 1].exact
            /\ ~rendered[n + 2].hasPath
            /\ rendered[n + 2].component = NotFoundErrorPage

RouteTableBuilt ==
    /\ inCall
    /\ Len(app.plugins) = 2
    /\ Len(seenOutputs[1]) = 1 /\ Len(seenOutputs[2]) = 1
    /\ seenOutputs[1][1].type = "feature-flag"
    /\ seenOutputs[2][1].type = "redirect-route"
    /\ seenOutputs[2][1].exact = "omitted"
    /\ Len(rendered) = 3

\* C3: with a feature flag provider in apis, after each getRootComponent
\* call the provider's list is exactly the {pluginId, name} of the feature
\* flag outputs that call saw, in plugin order then output order.
FlagsAreThoseOfLatestCall ==
    (inCall /\ hasFlagsProvider(app.apis)) =>
        LET S == PositionsOf(seenOutputs, {"feature-flag"})
        IN  /\ Len(flagsApi) = Cardinality(S)
            /\ \A pos \in S :
                 flagsApi[Rank(pos, S)] =
                     [pluginId |-> app.plugins[pos[1]],
                      name |-> seenOutputs[pos[1]][pos[2]].name]

FlagsReplacedByLaterCall ==
    /\ inCall
    /\ hasFlagsProvider(app.apis)
    /\ hadFlags
    /\ PositionsOf(seenOutputs, {"feature-flag"}) = {}
    /\ flagsApi = <<>>

\* C4: the Switch renders the first child that matches.  When two plugins
\* both have as first output a Route at the same path, that location never
\* renders the later plugin's element, renders nothing that comes after the
\* earlier plugin's element, and renders the first plugin's component when
\* the earlier one is the first plugin; the not-found route is rendered
\* only for a location no other child matches.
FirstMatchWins ==
    inCall =>
        LET S == PositionsOf(seenOutputs, RouteTypes)
        IN  /\ \A i, j \in 1..Len(seenOutputs) :
                 ( /\ i < j
                   /\ Len(seenOutputs[i]) > 0 /\ Len(seenOutputs[j]) > 0
                   /\ seenOutputs[i][1].type = "route"
                   /\ seenOutputs[j][1].type = "route"
                   /\ seenOutputs[i][1].path = seenOutputs[j][1].path )
                 => LET m == switchMatch(rendered, seenOutputs[i][1].path)
                    IN  /\ m # Rank(<<j, 1>>, S)
                        /\ m >= 1 /\ m <= Rank(<<i, 1>>, S)
                        /\ i = 1 => /\ m = 1
                                    /\ rendered[m].component =
                                           seenOutputs[1][1].component
            /\ \A l \in Locations :
                 LET m == switchMatch(rendered, l)
                 IN  /\ m >= 1
                     /\ rendered[m].component = NotFoundErrorPage =>
                          \A k \in 1..Len(rendered) :
                              rendered[k].component # NotFoundErrorPage
                                  => ~matches(rendered[k], l)

TwoPluginsShareAPath ==
    /\ inCall
    /\ Len(seenOutputs) = 2
    /\ Len(seenOutputs[1]) = 1 /\ Len(seenOutputs[2]) = 1
    /\ seenOutputs[1][1].type = "route" /\ seenOutputs[2][1].type = "route"
    /\ seenOutputs[1][1].path = seenOutputs[2][1].path
    /\ seenOutputs[1][1].component = "CompA"
    /\ seenOutputs[2][1].component = "CompB"
    /\ rendered[switchMatch(rendered, seenOutputs[1][1].path)].component = "CompA"

DefaultThemes ==
    << [id |-> "light", variant |-> "light", theme |-> lightTheme] >>

IdVariantTheme(themes) ==
    [k \in 1..Len(themes) |->
        [id |-> themes[k].id, variant |-> themes[k].variant, theme |-> themes[k].theme]]

\* The themes a {light?, dark?} pair or no themes option resolves to.
PairThemes(t) ==
    LET light == IF t.light # NoTheme
                 THEN << [id |-> "light", variant |-> "light", theme |-> t.light] >>
                 ELSE <<>>
        dark == IF t.dark # NoTheme
                THEN << [id |-> "dark", variant |-> "dark", theme |-> t.dark] >>
                ELSE <<>>
    IN  IF t.light = NoTheme /\ t.dark = NoTheme THEN DefaultThemes
        ELSE light \o dark

\* C8 as stated: an explicit list of any length is used unchanged; without
\* one, a light then a dark entry for the themes supplied, or one default
\* light theme when there is neither; the resolved list is never empty.
ThemesExplicitListUnchanged ==
    appState = "returned" =>
        /\ options.themes.shape = "array" => app.themes = options.themes.list
        /\ options.themes.shape # "array" =>
             IdVariantTheme(app.themes) = PairThemes(options.themes)
        /\ Len(app.themes) > 0

\* C8, amended: an explicit list of length N >= 1 is used unchanged; an
\* explicit empty list resolves, like no themes at all, to the one default
\* light theme; without a list, a light then a dark entry for the themes
\* supplied, or the default when there is neither; the list is never empty.
ThemesResolved ==
    appState = "returned" =>
        /\ (options.themes.shape = "array" /\ Len(options.themes.list) >= 1)
             => app.themes = options.themes.list
        /\ (options.themes.shape = "array" /\ Len(options.themes.list) = 0)
             => IdVariantTheme(app.themes) = DefaultThemes
        /\ options.themes.shape # "array" =>
             IdVariantTheme(app.themes) = PairThemes(options.themes)
        /\ Len(app.themes) > 0

EmptyThemeListGiven ==
    /\ appState = "returned"
    /\ options.themes.shape = "array"
    /\ options.themes.list = <<>>
    /\ Len(app.themes) = 1

\* C9: the location /login renders the built-in login page, whatever the
\* plugins output.
LoginLocationRendersLoginPage ==
    inCall =>
        LET m == switchMatch(rendered, LoginPath)
        IN  /\ m >= 1
            /\ rendered[m].element = "Route"
            /\ rendered[m].component = LoginPage

-----------------------------------------------------------------------------
(* Properties of GithubPreparer.prepare, in PrepareSpec.                   *)

filepathOf(c) == parseGitUrl(request[c]).filepath

Failed(c, ops) ==
    { k \in DOMAIN calls[c] : calls[c][k].op \in ops /\ calls[c][k].error # "" }

Made(c, ops) == { k \in DOMAIN calls[c] : calls[c][k].op \in ops }

HasGit(p) == \E k \in DOMAIN p : p[k] = ".git"

\* C5: after a successful prepare, template holds the contents of the
\* clone's subtree at the url's subpath, and no .git directory.
PreparedTemplateHasNoGit ==
    \A c \in Calls :
        pc[c] = "resolved" =>
            /\ \A p \in Under(RepoTree, filepathOf(c)) :
                 ~HasGit(p) => Rebase(p, filepathOf(c), targetPath) \in fs[c]
            /\ \A p \in Under(fs[c], targetPath) : ~HasGit(p)

\* C6: prepare rejects exactly when parseGitUrl, the clone or the move
\* failed, with that call's error; once fs.rmdir has settled, failed or
\* not, prepare has resolved and template is in place.
PrepareFailsOnlyWithItsSteps ==
    \A c \in Calls :
        LET log == calls[c]
            fatal == Failed(c, {"parseGitUrl", "clone", "move"})
        IN  /\ (pc[c] = "rejected") <=> (fatal # {})
            /\ pc[c] = "rejected" =>
                 /\ fatal = {Len(log)}
                 /\ failure[c] = log[Len(log)].error
            /\ Made(c, {"rmdir"}) # {} =>
                 /\ pc[c] = "resolved"
                 /\ failure[c] = ""
                 /\ targetPath \in fs[c]
            /\ pc[c] = "resolved" => Made(c, {"rmdir"}) # {}

RmdirFailedPrepareResolved ==
    \E c \in Calls :
        /\ pc[c] = "resolved"
        /\ Failed(c, {"rmdir"}) # {}
        /\ targetPath \in fs[c]

\* C7: when the clone fails it was tried once, neither the move nor the
\* rmdir is made, prepare rejects with the clone's error, and there is no
\* template in the workspace.
CloneFailureAborts ==
    \A c \in Calls :
        Failed(c, {"clone"}) # {} =>
            /\ Cardinality(Made(c, {"clone"})) = 1
            /\ Made(c, {"move", "rmdir"}) = {}
            /\ pc[c] = "rejected"
            /\ \A k \in Failed(c, {"clone"}) : failure[c] = calls[c][k].error
            /\ Under(fs[c], targetPath) = {}

CloneFailedLeavingCheckout ==
    \E c \in Calls :
        /\ pc[c] = "rejected"
        /\ Failed(c, {"clone"}) # {}
        /\ checkoutPath \in fs[c]

\* What is left in checkout of a clone whose subtree at filepath was moved.
CloneWithout(filepath) ==
    {checkoutPath} \cup { checkoutPath \o p : p \in RepoTree \ Under(RepoTree, filepath) }

\* C10 as stated: after a successful prepare, with a subpath or without,
\* checkout still exists and holds the clone less the subtree moved.
CheckoutKeptAfterPrepare ==
    \A c \in Calls :
        pc[c] = "resolved" =>
            /\ checkoutPath \in fs[c]
            /\ Under(fs[c], checkoutPath) = CloneWithout(filepathOf(c))

\* C10, amended: after a successful prepare with a non-empty subpath,
\* checkout exists and holds the clone less the subtree moved; with an
\* empty subpath checkout itself was moved and no longer exists.
CheckoutAfterPrepare ==
    \A c \in Calls :
        pc[c] = "resolved" =>
            IF filepathOf(c) = <<>>
            THEN Under(fs[c], checkoutPath) = {}
            ELSE /\ checkoutPath \in fs[c]
                 /\ Under(fs[c], checkoutPath) = CloneWithout(filepathOf(c))

WholeCheckoutMoved ==
    \E c \in Calls :
        /\ pc[c] = "resolved"
        /\ filepathOf(c) = <<>>
        /\ checkoutPath \notin fs[c]
        /\ targetPath \o <<"README">> \in fs[c]

====
